---- MODULE Spec2Model ----
(***************************************************************************)
(* Model of boxes/vectors.py: the vector primitives, the affine transform  *)
(* helpers, tangent() and the kerf() polygon offset.                       *)
(*                                                                         *)
(* Numbers.  The code computes with Python floats.  The model computes     *)
(* with exact values of the form (n/d)*sqrt(r), r a squarefree positive    *)
(* integer, which is closed under the multiplications, divisions and       *)
(* square roots the code performs on the inputs enumerated below.  An      *)
(* addition of two values with different radicands is not representable    *)
(* and is left undefined (TLC stops with an error if it is ever reached),  *)
(* so the enumerated inputs are those for which every intermediate value   *)
(* is exact.  Rounding is therefore abstracted away; a float division by   *)
(* zero raises ZeroDivisionError as in Python.                             *)
(***************************************************************************)
EXTENDS Integers, Sequences, FiniteSets, TLC

----------------------------------------------------------------------------
(* Exact arithmetic on (n/d)*sqrt(r).                                      *)

Abs(a) == IF a < 0 THEN -a ELSE a

RECURSIVE Gcd(_, _)
Gcd(a, b) == IF b = 0 THEN a ELSE Gcd(b, a % b)

\* the largest s with s*s dividing m (m > 0)
RECURSIVE SquarePartFrom(_, _, _)
SquarePartFrom(m, s, best) ==
    IF s * s > m THEN best
    ELSE SquarePartFrom(m, s + 1, IF m % (s * s) = 0 THEN s ELSE best)

SquarePart(m) == SquarePartFrom(m, 2, 1)

\* the normal form of (n/d)*sqrt(r), d # 0, r > 0
Reduce(n, d, r, g) == [n |-> n \div g, d |-> d \div g, r |-> r]

PullSquare(n, d, r, s) == Reduce(n * s, d, r \div (s * s), Gcd(Abs(n * s), d))

Num(n, d, r) ==
    IF n = 0 THEN [n |-> 0, d |-> 1, r |-> 1]
    ELSE PullSquare(IF d < 0 THEN -n ELSE n, Abs(d), r, SquarePart(r))

Whole(a) == Num(a, 1, 1)
Zero == Whole(0)
One == Whole(1)

IsZero(a) == a.n = 0
Neg(a) == [a EXCEPT !.n = -a.n]
Mul(a, b) == Num(a.n * b.n, a.d * b.d, a.r * b.r)
\* a / b for b # 0
Div(a, b) == Num(a.n * b.d, a.d * b.n * b.r, a.r * b.r)
Add(a, b) ==
    CASE IsZero(a) -> b
      [] IsZero(b) -> a
      [] a.r = b.r -> Num(a.n * b.d + b.n * a.d, a.d * b.d, a.r)
Sub(a, b) == Add(a, Neg(b))
\* x ** 0.5 for a rational x >= 0
Sqrt(a) ==
    CASE IsZero(a) -> Zero
      [] a.r = 1 /\ a.n > 0 -> Num(1, a.d, a.n * a.d)
\* a < b, by sign and squares
Sign(a) == IF a.n > 0 THEN 1 ELSE IF a.n < 0 THEN -1 ELSE 0
SqLess(a, b) == a.n * a.n * a.r * b.d * b.d < b.n * b.n * b.r * a.d * a.d
Less(a, b) ==
    CASE Sign(a) < Sign(b) -> TRUE
      [] Sign(a) > Sign(b) -> FALSE
      [] Sign(a) = 0 -> FALSE
      [] Sign(a) = 1 -> SqLess(a, b)
      [] Sign(a) = -1 -> SqLess(b, a)

----------------------------------------------------------------------------
(* State.  Four programs are modelled, each with its own specification; in *)
(* each specification the variables of the other three stay idle.          *)

VARIABLES
    points, k, closed,      \* kerf: the arguments
    i, result,              \* kerf: the loop index and the list being built
    pc,                     \* kerf: "loop", "returned" or the exception raised
    given,                  \* kerf: the caller's list as it was passed
    heap,                   \* primitives: the objects, by identity
    called,                 \* primitives: the call made, or the exception
    ret,                    \* primitives: the identity of the object returned
    kept,                   \* primitives: the value returned, as it was
    mutated,                \* primitives: the caller has assigned to its list
    m0, m1, vec,            \* transforms: two matrices and a point
    product,                \* transforms: mmul(m0, m1)
    direct,                 \* transforms: vtransl(vec, product)
    mid, chained,           \* transforms: vtransl(vtransl(vec, m0), m1)
    apc,                    \* transforms: the step reached
    tx, ty, tr,             \* tangent: the arguments
    tres                    \* tangent: the outcome

kerfVars == <<points, k, closed, i, result, pc, given>>
primVars == <<heap, called, ret, kept, mutated>>
affineVars == <<m0, m1, vec, product, direct, mid, chained, apc>>
tangentVars == <<tx, ty, tr, tres>>
vars == <<kerfVars, primVars, affineVars, tangentVars>>

----------------------------------------------------------------------------
(* Vector primitives.  A vector is a pair <<x, y>>; v[1], v[2] are Python's *)
(* v[0], v[1].                                                             *)

Vlength(v) == Sqrt(Add(Mul(v[1], v[1]), Mul(v[2], v[2])))

\* mutant: the division by the length left out
NormalizeKeepsLength(v) == v

NormalizeBy(v, l) ==
    IF IsZero(l) THEN <<Zero, Zero>> ELSE <<Div(v[1], l), Div(v[2], l)>>

Normalize(v) == NormalizeBy(v, Vlength(v))

Vdiff(p1, p2) == <<Sub(p2[1], p1[1]), Sub(p2[2], p1[2])>>

Vadd(v1, v2) == <<Add(v1[1], v2[1]), Add(v1[2], v2[2])>>

\* mutant: the orthogonal turned clockwise
VorthogonalClockwise(v) == <<v[2], Neg(v[1])>>

Vorthogonal(v) == <<Neg(v[2]), v[1]>>

Vscalmul(v, a) == <<Mul(a, v[1]), Mul(a, v[2])>>

Dotproduct(v1, v2) == Add(Mul(v1[1], v2[1]), Mul(v1[2], v2[2]))

----------------------------------------------------------------------------
(* kerf(points, k, closed)                                                 *)

\* Python's seq[j] for -len(seq) <= j < len(seq)
PyAt(seq, j) == IF j < 0 THEN seq[Len(seq) + j + 1] ELSE seq[j + 1]

\* the normalized orthogonals of the segment into vertex j and of the
\* segment out of it
OrthogonalIn(pts, j) ==
    Vorthogonal(Normalize(Vdiff(PyAt(pts, j - 1), PyAt(pts, j))))

\* mutant: the outgoing segment taken one index too far
OrthogonalOutShifted(pts, j) ==
    Vorthogonal(Normalize(Vdiff(PyAt(pts, (j + 1) % Len(pts)),
                                PyAt(pts, (j + 2) % Len(pts)))))

OrthogonalOut(pts, j) ==
    Vorthogonal(Normalize(Vdiff(PyAt(pts, j), PyAt(pts, (j + 1) % Len(pts)))))

\* mutant: the rule for the first vertex of an open path left out
KerfV1NoRule(pts, cl, j) == OrthogonalIn(pts, j)

\* v1 and v2 as the open-path rule leaves them
KerfV1(pts, cl, j) ==
    IF ~cl /\ j = 0 THEN OrthogonalOut(pts, j) ELSE OrthogonalIn(pts, j)

\* mutant: the rule for the last vertex of an open path left out
KerfV2NoRule(pts, cl, j) == OrthogonalOut(pts, j)

KerfV2(pts, cl, j) ==
    IF ~cl /\ j = Len(pts) - 1 THEN KerfV1(pts, cl, j) ELSE OrthogonalOut(pts, j)

\* mutant: k / cos_alpha, the sign lost
KerfScalePlus(kk, cos_alpha) ==
    IF IsZero(cos_alpha) THEN [outcome |-> "ZeroDivisionError"]
    ELSE [outcome |-> "ok", value |-> Div(kk, cos_alpha)]

\* the outcome of the division -k / cos_alpha
KerfScale(kk, cos_alpha) ==
    IF IsZero(cos_alpha) THEN [outcome |-> "ZeroDivisionError"]
    ELSE [outcome |-> "ok", value |-> Div(Neg(kk), cos_alpha)]

\* vadd(points[i], vscalmul(d, -k / cos_alpha)), or the exception
KerfMove(p, d, a) ==
    IF a.outcome = "ok"
    THEN [outcome |-> "ok", value |-> Vadd(p, Vscalmul(d, a.value))]
    ELSE [outcome |-> a.outcome]

\* d the direction the point has to move, cos_alpha = dotproduct(v1, d)
KerfAlong(p, kk, v1, d) == KerfMove(p, d, KerfScale(kk, Dotproduct(v1, d)))

KerfBisect(p, kk, v1, v2) == KerfAlong(p, kk, v1, Normalize(Vadd(v1, v2)))

\* one pass through the body of the loop for index j (0-based): the point
\* appended to result, or the exception raised
KerfVertex(pts, kk, cl, j) ==
    KerfBisect(PyAt(pts, j), kk, KerfV1(pts, cl, j), KerfV2(pts, cl, j))

\* mutant: the point put in front
PrependResult(res, p) == <<p>> \o res

\* result.append(p)
AppendResult(res, p) == Append(res, p)

\* the whole call as a function of its arguments
RECURSIVE KerfFrom(_, _, _, _, _)
KerfCont(pts, kk, cl, j, res, o) ==
    IF o.outcome = "ok"
    THEN KerfFrom(pts, kk, cl, j + 1, AppendResult(res, o.value))
    ELSE [outcome |-> o.outcome]

KerfFrom(pts, kk, cl, j, res) ==
    IF j = Len(pts) THEN [outcome |-> "ok", value |-> res]
    ELSE KerfCont(pts, kk, cl, j, res, KerfVertex(pts, kk, cl, j))

Kerf(pts, kk, cl) == KerfFrom(pts, kk, cl, 0, <<>>)

\* ---- inputs ----
MaxLen == 4
MaxK == 2

Pt(x, y) == <<Whole(x), Whole(y)>>

\* the corners of a 4 by 3 rectangle, whose diagonals have length 5, and two
\* points that cut a 3 by 3 square from it
PointSet == {Pt(0, 0), Pt(4, 0), Pt(4, 3), Pt(0, 3), Pt(1, 0), Pt(1, 3)}

KerfSet == {Num(n, 2, 1) : n \in -MaxK .. MaxK}

\* the edge from a to b has rational length
RationalEdge(a, b) == Vlength(Vdiff(a, b)).r = 1

\* every segment between cyclically consecutive points has rational length,
\* so that all the values kerf computes are exact
RationalPairs == {e \in PointSet \X PointSet : RationalEdge(e[1], e[2])}

ExactPath(pts) ==
    \A j \in 1 .. Len(pts) : <<pts[j], pts[(j % Len(pts)) + 1]>> \in RationalPairs

Paths == UNION {[1 .. n -> PointSet] : n \in 0 .. MaxLen}

\* an iteration of the loop that appends a point
KerfStep ==
    /\ pc = "loop"
    /\ i < Len(points)
    /\ KerfVertex(points, k, closed, i).outcome = "ok"
    /\ result' = AppendResult(result, KerfVertex(points, k, closed, i).value)
    /\ i' = i + 1
    /\ UNCHANGED <<points, k, closed, pc, given>>
    /\ UNCHANGED <<primVars, affineVars, tangentVars>>

\* an iteration of the loop in which the division raises
KerfRaise ==
    /\ pc = "loop"
    /\ i < Len(points)
    /\ KerfVertex(points, k, closed, i).outcome # "ok"
    /\ pc' = KerfVertex(points, k, closed, i).outcome
    /\ UNCHANGED <<points, k, closed, i, result, given>>
    /\ UNCHANGED <<primVars, affineVars, tangentVars>>

\* return result
KerfReturn ==
    /\ pc = "loop"
    /\ i = Len(points)
    /\ pc' = "returned"
    /\ UNCHANGED <<points, k, closed, i, result, given>>
    /\ UNCHANGED <<primVars, affineVars, tangentVars>>

----------------------------------------------------------------------------
(* The vector primitives as calls on objects.  The heap is a sequence of   *)
(* objects, an object's identity is its index; a list is mutable, a tuple  *)
(* is not.  The caller owns two 2-element lists, objects 1 and 2, passes   *)
(* them to one primitive, keeps what it returns and may then assign to an  *)
(* element of its first list.                                              *)

MaxCoord == 2
MaxScalar == 2

Scalars == {Whole(n) : n \in -1 .. MaxScalar}

Vectors == {Pt(x, y) : x, y \in 0 .. MaxCoord}

\* angles are whole numbers of quarter turns
QuarterTurns == 0 .. 3

Cos(q) == CASE q % 4 = 0 -> One [] q % 4 = 1 -> Zero [] q % 4 = 2 -> Neg(One) [] q % 4 = 3 -> Zero
Sin(q) == Cos(q + 3)

NewTuple(h, val) == Append(h, [kind |-> "tuple", val |-> val])

\* the call returns a newly built tuple holding val
ReturnsNew(name, val) ==
    /\ heap' = NewTuple(heap, val)
    /\ ret' = Len(heap) + 1
    /\ kept' = val
    /\ called' = name
    /\ UNCHANGED mutated
    /\ UNCHANGED <<kerfVars, affineVars, tangentVars>>

\* the call returns the existing object id
ReturnsObject(name, id) ==
    /\ ret' = id
    /\ kept' = heap[id].val
    /\ called' = name
    /\ UNCHANGED <<heap, mutated>>
    /\ UNCHANGED <<kerfVars, affineVars, tangentVars>>

\* the call raises
Raises(name, exception) ==
    /\ ret' = 0
    /\ called' = exception
    /\ UNCHANGED <<heap, kept, mutated>>
    /\ UNCHANGED <<kerfVars, affineVars, tangentVars>>

Circlepoint(r, a) == <<Mul(r, Cos(a)), Mul(r, Sin(a))>>

CallNormalize ==
    /\ called = "none"
    /\ ReturnsNew("normalize", Normalize(heap[1].val))

\* vclip(v, length) with v the caller's first list, l > length:
\* return vscalmul(v, length / l)
CallVclipScaled ==
    /\ called = "none"
    /\ \E length \in Scalars :
          /\ Less(length, Vlength(heap[1].val))
          /\ ~IsZero(Vlength(heap[1].val))
          /\ ReturnsNew("vclip",
                        Vscalmul(heap[1].val, Div(length, Vlength(heap[1].val))))

\* vclip(v, length), l > length and l = 0: length / l raises
CallVclipRaises ==
    /\ called = "none"
    /\ \E length \in Scalars :
          /\ Less(length, Vlength(heap[1].val))
          /\ IsZero(Vlength(heap[1].val))
          /\ Raises("vclip", "ZeroDivisionError")

\* vclip(v, length), l <= length: return v
CallVclipWithin ==
    /\ called = "none"
    /\ \E length \in Scalars :
          /\ ~Less(length, Vlength(heap[1].val))
          /\ ReturnsObject("vclip", 1)

CallVdiff ==
    /\ called = "none"
    /\ ReturnsNew("vdiff", Vdiff(heap[1].val, heap[2].val))

CallVadd ==
    /\ called = "none"
    /\ ReturnsNew("vadd", Vadd(heap[1].val, heap[2].val))

CallVorthogonal ==
    /\ called = "none"
    /\ ReturnsNew("vorthogonal", Vorthogonal(heap[1].val))

CallVscalmul ==
    /\ called = "none"
    /\ \E a \in Scalars : ReturnsNew("vscalmul", Vscalmul(heap[1].val, a))

CallCirclepoint ==
    /\ called = "none"
    /\ \E r \in Scalars, a \in QuarterTurns :
          ReturnsNew("circlepoint", Circlepoint(r, a))

\* the caller's v[0] = x or v[1] = x on its first list, after the call
Mutate ==
    /\ ret # 0
    /\ ~mutated
    /\ \E x \in Scalars, at \in 1 .. 2 :
          /\ heap[1].val[at] # x
          /\ heap' = [heap EXCEPT ![1].val[at] = x]
    /\ mutated' = TRUE
    /\ UNCHANGED <<called, ret, kept>>
    /\ UNCHANGED <<kerfVars, affineVars, tangentVars>>

----------------------------------------------------------------------------
(* rotm, vtransl and mmul.  A matrix is <<row0, row1>>, a row is a triple. *)

MaxShift == 1

Rotm(angle) ==
    <<<<Cos(angle), Neg(Sin(angle)), Zero>>,
      <<Sin(angle), Cos(angle), Zero>>>>

Vtransl(v, m) ==
    <<Add(Add(Mul(m[1][1], v[1]), Mul(m[1][2], v[2])), m[1][3]),
      Add(Add(Mul(m[2][1], v[1]), Mul(m[2][2], v[2])), m[2][3])>>

\* result[j][i] after the loop over k: 0.0 + m0[0][i]*m1[j][0] + m0[1][i]*m1[j][1]
MmulEntry(a, b, j, c) ==
    Add(Add(Zero, Mul(a[1][c], b[j][1])), Mul(a[2][c], b[j][2]))

Mmul(a, b) ==
    <<<<MmulEntry(a, b, 1, 1), MmulEntry(a, b, 1, 2), MmulEntry(a, b, 1, 3)>>,
      <<MmulEntry(a, b, 2, 1), MmulEntry(a, b, 2, 2), MmulEntry(a, b, 2, 3)>>>>

\* a rotation followed by a translation by (sx, sy)
Affine(angle, sx, sy) ==
    <<<<Rotm(angle)[1][1], Rotm(angle)[1][2], Whole(sx)>>,
      <<Rotm(angle)[2][1], Rotm(angle)[2][2], Whole(sy)>>>>

Matrices == {Affine(a, sx, sy) : a \in QuarterTurns, sx, sy \in 0 .. MaxShift}

\* product = mmul(m0, m1)
Multiply ==
    /\ apc = "start"
    /\ product' = Mmul(m0, m1)
    /\ apc' = "multiplied"
    /\ UNCHANGED <<m0, m1, vec, direct, mid, chained>>
    /\ UNCHANGED <<kerfVars, primVars, tangentVars>>

\* direct = vtransl(vec, product)
ApplyProduct ==
    /\ apc = "multiplied"
    /\ direct' = Vtransl(vec, product)
    /\ apc' = "applied"
    /\ UNCHANGED <<m0, m1, vec, product, mid, chained>>
    /\ UNCHANGED <<kerfVars, primVars, tangentVars>>

\* mid = vtransl(vec, m0)
ApplyFirst ==
    /\ apc = "applied"
    /\ mid' = Vtransl(vec, m0)
    /\ apc' = "first"
    /\ UNCHANGED <<m0, m1, vec, product, direct, chained>>
    /\ UNCHANGED <<kerfVars, primVars, tangentVars>>

\* chained = vtransl(mid, m1)
ApplySecond ==
    /\ apc = "first"
    /\ chained' = Vtransl(mid, m1)
    /\ apc' = "done"
    /\ UNCHANGED <<m0, m1, vec, product, direct, mid>>
    /\ UNCHANGED <<kerfVars, primVars, tangentVars>>

----------------------------------------------------------------------------
(* tangent(x, y, r)                                                        *)

MaxT == 3

\* mutant: the argument clamped into [-1, 1] instead of a domain error
AsinClamped(t) ==
    [outcome |-> "ok",
     sine |-> IF Less(One, t) THEN One ELSE IF Less(t, Neg(One)) THEN Neg(One) ELSE t]

\* math.asin(t): the angle is kept as the sine it was taken from
Asin(t) ==
    IF Less(One, t) \/ Less(t, Neg(One)) THEN [outcome |-> "ValueError"]
    ELSE [outcome |-> "ok", sine |-> t]

\* math.cos of an angle asin returned
CosOfAsin(a) == Sqrt(Sub(One, Mul(a.sine, a.sine)))

\* the rest of tangent once a2 = asin(r / l1) is known; the angle a1 + a2 is
\* kept as its two terms
TangentWith(x, y, l1, a2) ==
    IF a2.outcome = "ok"
    THEN [outcome |-> "ok",
          angle |-> [atan2 |-> <<y, x>>, asin |-> a2.sine],
          length |-> Mul(CosOfAsin(a2), l1)]
    ELSE [outcome |-> a2.outcome]

TangentFrom(x, y, r, l1) ==
    IF IsZero(l1) THEN [outcome |-> "ZeroDivisionError"]
    ELSE TangentWith(x, y, l1, Asin(Div(r, l1)))

Tangent(x, y, r) == TangentFrom(x, y, r, Vlength(<<x, y>>))

TangentReturns ==
    /\ tres.outcome = "pending"
    /\ Tangent(tx, ty, tr).outcome = "ok"
    /\ tres' = Tangent(tx, ty, tr)
    /\ UNCHANGED <<tx, ty, tr>>
    /\ UNCHANGED <<kerfVars, primVars, affineVars>>

TangentRaises ==
    /\ tres.outcome = "pending"
    /\ Tangent(tx, ty, tr).outcome # "ok"
    /\ tres' = Tangent(tx, ty, tr)
    /\ UNCHANGED <<tx, ty, tr>>
    /\ UNCHANGED <<kerfVars, primVars, affineVars>>

----------------------------------------------------------------------------
(* Specifications                                                          *)

\* kerf called once on an exact path
Init ==
    /\ points \in Paths
    /\ ExactPath(points)
    /\ k \in KerfSet
    /\ closed \in BOOLEAN
    /\ given = points
    /\ i = 0
    /\ result = <<>>
    /\ pc = "loop"
    /\ heap = <<>> /\ called = "idle" /\ ret = 0 /\ kept = <<>> /\ mutated = FALSE
    /\ m0 = <<>> /\ m1 = <<>> /\ vec = <<>> /\ product = <<>>
    /\ direct = <<>> /\ mid = <<>> /\ chained = <<>> /\ apc = "idle"
    /\ tx = Zero /\ ty = Zero /\ tr = Zero /\ tres = [outcome |-> "idle"]

Next == KerfStep \/ KerfRaise \/ KerfReturn

Spec == Init /\ [][Next]_vars

\* one primitive called on the caller's two lists
InitPrimitives ==
    /\ heap \in {<<[kind |-> "list", val |-> a], [kind |-> "list", val |-> b]>> :
                    a, b \in Vectors}
    /\ called = "none"
    /\ ret = 0
    /\ kept = <<>>
    /\ mutated = FALSE
    /\ points = <<>> /\ k = Zero /\ closed = TRUE /\ given = <<>>
    /\ i = 0 /\ result = <<>> /\ pc = "idle"
    /\ m0 = <<>> /\ m1 = <<>> /\ vec = <<>> /\ product = <<>>
    /\ direct = <<>> /\ mid = <<>> /\ chained = <<>> /\ apc = "idle"
    /\ tx = Zero /\ ty = Zero /\ tr = Zero /\ tres = [outcome |-> "idle"]

NextPrimitives ==
    \/ CallNormalize
    \/ CallVclipScaled
    \/ CallVclipRaises
    \/ CallVclipWithin
    \/ CallVdiff
    \/ CallVadd
    \/ CallVorthogonal
    \/ CallVscalmul
    \/ CallCirclepoint
    \/ Mutate

SpecPrimitives == InitPrimitives /\ [][NextPrimitives]_vars

\* a point sent through mmul(m0, m1) and through m0, then m1
InitAffine ==
    /\ m0 \in Matrices
    /\ m1 \in Matrices
    /\ vec \in {Pt(x, y) : x, y \in 0 .. MaxShift}
    /\ product = <<>>
    /\ direct = <<>>
    /\ mid = <<>>
    /\ chained = <<>>
    /\ apc = "start"
    /\ points = <<>> /\ k = Zero /\ closed = TRUE /\ given = <<>>
    /\ i = 0 /\ result = <<>> /\ pc = "idle"
    /\ heap = <<>> /\ called = "idle" /\ ret = 0 /\ kept = <<>> /\ mutated = FALSE
    /\ tx = Zero /\ ty = Zero /\ tr = Zero /\ tres = [outcome |-> "idle"]

NextAffine == Multiply \/ ApplyProduct \/ ApplyFirst \/ ApplySecond

SpecAffine == InitAffine /\ [][NextAffine]_vars

\* tangent called once
InitTangent ==
    /\ tx \in {Whole(n) : n \in -MaxT .. MaxT}
    /\ ty \in {Whole(n) : n \in -MaxT .. MaxT}
    /\ tr \in {Whole(n) : n \in 0 .. MaxT}
    /\ tres = [outcome |-> "pending"]
    /\ points = <<>> /\ k = Zero /\ closed = TRUE /\ given = <<>>
    /\ i = 0 /\ result = <<>> /\ pc = "idle"
    /\ heap = <<>> /\ called = "idle" /\ ret = 0 /\ kept = <<>> /\ mutated = FALSE
    /\ m0 = <<>> /\ m1 = <<>> /\ vec = <<>> /\ product = <<>>
    /\ direct = <<>> /\ mid = <<>> /\ chained = <<>> /\ apc = "idle"

NextTangent == TangentReturns \/ TangentRaises

SpecTangent == InitTangent /\ [][NextTangent]_vars

----------------------------------------------------------------------------
(* Properties of kerf                                                      *)

Returned == pc = "returned"
Raised == pc = "ZeroDivisionError"
NumPoints == Len(points)

\* the cyclic neighbours of position j (1-based)
PrevPos(j) == IF j = 1 THEN NumPoints ELSE j - 1
NextPos(j) == IF j = NumPoints THEN 1 ELSE j + 1

Cross(e1, e2) == Sub(Mul(e1[1], e2[2]), Mul(e1[2], e2[1]))

\* the unit normal (-y, x) of the segment from a to b, from its definition
UnitNormal(a, b) ==
    <<Div(Sub(a[2], b[2]), Vlength(Vdiff(a, b))),
      Div(Sub(b[1], a[1]), Vlength(Vdiff(a, b)))>>

\* the segments a -> p and p -> b are collinear and point in opposite directions
ExactlyReversed(a, p, b) ==
    /\ IsZero(Cross(Vdiff(a, p), Vdiff(p, b)))
    /\ Less(Dotproduct(Vdiff(a, p), Vdiff(p, b)), Zero)

\* both segments at position j have length and do not fold back
ProperVertex(j) ==
    /\ points[PrevPos(j)] # points[j]
    /\ points[j] # points[NextPos(j)]
    /\ ~ExactlyReversed(points[PrevPos(j)], points[j], points[NextPos(j)])

\* the counter-clockwise axis-aligned rectangle with corners (x0,y0), (x1,y1)
RectangleCCW(x0, y0, x1, y1) == <<<<x0, y0>>, <<x1, y0>>, <<x1, y1>>, <<x0, y1>>>>

Rotated(seq, s) == [j \in 1 .. Len(seq) |-> seq[((j - 1 + s) % Len(seq)) + 1]]

\* pts is such a rectangle, listed from its lower left corner
IsRectangleFromLowerLeft(pts) ==
    /\ Len(pts) = 4
    /\ Less(pts[1][1], pts[3][1])
    /\ Less(pts[1][2], pts[3][2])
    /\ pts = RectangleCCW(pts[1][1], pts[1][2], pts[3][1], pts[3][2])

\* pts is such a rectangle, listed from any corner
IsRectangleCCW(pts) ==
    Len(pts) = 4 /\ \E s \in 0 .. 3 : IsRectangleFromLowerLeft(Rotated(pts, s))

LowerLeft(pts) ==
    Rotated(pts, CHOOSE s \in 0 .. 3 : IsRectangleFromLowerLeft(Rotated(pts, s)))[1]

\* a corner of the rectangle moved outward by kk along each axis
CornerOut(p, kk, x0, y0) ==
    <<IF p[1] = x0 THEN Sub(p[1], kk) ELSE Add(p[1], kk),
      IF p[2] = y0 THEN Sub(p[2], kk) ELSE Add(p[2], kk)>>

\* C1: on a closed path every vertex whose two segments have length and are
\* not exactly reversed is moved to perpendicular offset -k from both of
\* them; the corners of a counter-clockwise axis-aligned rectangle move
\* outward by k along each axis when k > 0.
MiterOffsetDistance ==
    closed =>
        /\ \A j \in 1 .. Len(result) :
              ProperVertex(j) =>
                 /\ Dotproduct(Vdiff(points[j], result[j]),
                               UnitNormal(points[PrevPos(j)], points[j])) = Neg(k)
                 /\ Dotproduct(Vdiff(points[j], result[j]),
                               UnitNormal(points[j], points[NextPos(j)])) = Neg(k)
        /\ \A j \in 1 .. NumPoints : ProperVertex(j) /\ i = j - 1 => ~Raised
        /\ IsRectangleCCW(points) /\ Less(Zero, k) =>
              /\ ~Raised
              /\ \A j \in 1 .. Len(result) :
                    result[j] = CornerOut(points[j], k, LowerLeft(points)[1],
                                          LowerLeft(points)[2])

MiterOffsetWitness ==
    /\ closed
    /\ Returned
    /\ points = RectangleCCW(Whole(0), Whole(0), Whole(4), Whole(3))
    /\ k = Num(1, 2, 1)
    /\ result[3] = <<Num(9, 2, 1), Num(7, 2, 1)>>

\* C2 (as claimed): kerf returns for every path, every k and either flag; it
\* never raises.
KerfNeverRaises == ~Raised

\* C3: on an open path of at least two points the end vertices use their one
\* segment only: cos_alpha is 1 there and the end point moves by -k times the
\* unit normal of that segment; [(0,0),(1,0)] gives [(0,-k),(1,-k)].
OpenPathEnds ==
    ~closed /\ NumPoints >= 2 =>
        /\ points[1] # points[2] =>
              /\ ~(Raised /\ i = 0)
              /\ Dotproduct(KerfV1(points, closed, 0),
                            Normalize(Vadd(KerfV1(points, closed, 0),
                                           KerfV2(points, closed, 0)))) = One
              /\ Len(result) >= 1 =>
                    result[1] = Vadd(points[1],
                                     Vscalmul(UnitNormal(points[1], points[2]), Neg(k)))
        /\ points[NumPoints - 1] # points[NumPoints] =>
              /\ ~(Raised /\ i = NumPoints - 1)
              /\ Dotproduct(KerfV1(points, closed, NumPoints - 1),
                            Normalize(Vadd(KerfV1(points, closed, NumPoints - 1),
                                           KerfV2(points, closed, NumPoints - 1)))) = One
              /\ Len(result) = NumPoints =>
                    result[NumPoints] =
                        Vadd(points[NumPoints],
                             Vscalmul(UnitNormal(points[NumPoints - 1], points[NumPoints]),
                                      Neg(k)))
        /\ points = <<Pt(0, 0), Pt(1, 0)>> /\ Returned =>
              result = <<<<Zero, Neg(k)>>, <<One, Neg(k)>>>>

OpenPathEndsWitness ==
    /\ ~closed
    /\ Returned
    /\ points = <<Pt(0, 0), Pt(1, 0)>>
    /\ k = Num(1, 2, 1)
    /\ result = <<<<Zero, Num(-1, 2, 1)>>, <<One, Num(-1, 2, 1)>>>>

\* C6: the result grows by one entry per vertex, in index order; entry j is
\* the displaced image of points[j]; a returned result has len(points)
\* entries; the input list is unchanged.
LengthAndIndex ==
    /\ points = given
    /\ Len(result) = i
    /\ Returned => Len(result) = Len(given)
    /\ \A j \in 1 .. Len(result) :
          /\ KerfVertex(given, k, closed, j - 1).outcome = "ok"
          /\ result[j] = KerfVertex(given, k, closed, j - 1).value

LengthAndIndexWitness ==
    /\ Returned
    /\ NumPoints = MaxLen
    /\ Len(result) = MaxLen
    /\ ~IsZero(k)

\* the polygon is convex and regular: equal sides, equal nonzero turns
Edge(pts, j) == Vdiff(pts[j], pts[(j % Len(pts)) + 1])
Turn(pts, j) == Cross(Edge(pts, j), Edge(pts, (j % Len(pts)) + 1))
SquaredLength(v) == Dotproduct(v, v)

IsRegularPolygon(pts) ==
    /\ Len(pts) >= 3
    /\ ~IsZero(Turn(pts, 1))
    /\ \A j \in 1 .. Len(pts) :
          /\ SquaredLength(Edge(pts, j)) = SquaredLength(Edge(pts, 1))
          /\ Turn(pts, j) = Turn(pts, 1)
          /\ Less(Zero, Dotproduct(Edge(pts, j), Edge(pts, j))) 

\* k offsets outward: counter-clockwise and k > 0, or clockwise and k < 0
Outward(pts, kk) == Less(Zero, Mul(Turn(pts, 1), kk))

\* C7: a closed convex regular polygon offset outward by k and then inward
\* by k is the polygon again, vertex for vertex.
OffsetRoundTrip ==
    closed /\ IsRegularPolygon(points) /\ Outward(points, k) =>
        /\ ~Raised
        /\ Returned => Kerf(result, Neg(k), TRUE) = [outcome |-> "ok", value |-> points]

OffsetRoundTripWitness ==
    /\ closed
    /\ Returned
    /\ points = RectangleCCW(Whole(1), Whole(0), Whole(4), Whole(3))
    /\ k = Num(1, 2, 1)
    /\ result # points
    /\ Kerf(result, Neg(k), TRUE).outcome = "ok"

\* the positions output j can depend on: j and its neighbours, cyclic when
\* closed, without wrap-around when open
Window(n, cl, j) ==
    IF cl THEN {j, IF j = 1 THEN n ELSE j - 1, IF j = n THEN 1 ELSE j + 1}
    ELSE {j - 1, j, j + 1} \cap (1 .. n)

\* pts with every position outside the window of j replaced by c
Elsewhere(pts, cl, j, c) ==
    [x \in 1 .. Len(pts) |-> IF x \in Window(Len(pts), cl, j) THEN pts[x] ELSE c]

\* C9: output j is the same for every path of the same length that agrees
\* with points on the three positions j-1, j, j+1 (cyclic when closed; an
\* open path's ends do not see the other end).  Stated through the paths
\* whose other positions all hold one point c: two paths that agree on the
\* window are both compared with the same such path (c = points[j] always
\* gives one), so their outputs at j are equal.
OffsetIsLocal ==
    Len(result) >= 1 =>
        \A c \in PointSet :
            ExactPath(Elsewhere(points, closed, Len(result), c)) =>
                KerfVertex(Elsewhere(points, closed, Len(result), c), k, closed,
                           Len(result) - 1) =
                    [outcome |-> "ok", value |-> result[Len(result)]]

OffsetIsLocalWitness ==
    /\ ~closed
    /\ NumPoints = MaxLen
    /\ Len(result) = 1
    /\ ~IsZero(k)
    /\ ~IsZero(Turn(points, 1))
    /\ \E c \in PointSet :
          /\ c # points[NumPoints]
          /\ ExactPath(Elsewhere(points, closed, 1, c))
          /\ ExactPath(Elsewhere(points, closed, 1, points[1]))

Reverse(seq) == [j \in 1 .. Len(seq) |-> seq[Len(seq) + 1 - j]]

\* no segment the loop uses has zero length and no vertex folds back
ProperPath ==
    IF closed THEN \A j \in 1 .. NumPoints : ProperVertex(j)
    ELSE /\ NumPoints # 1
         /\ \A j \in 1 .. NumPoints - 1 : points[j] # points[j + 1]
         /\ \A j \in 2 .. NumPoints - 1 : ProperVertex(j)

\* C10: traversing the path in the opposite order flips the side: the offset
\* of the reversed path by -k is the reverse of the offset of the path by k.
ReversalFlipsSide ==
    ProperPath =>
        /\ ~Raised
        /\ Returned =>
              Kerf(Reverse(points), Neg(k), closed) =
                  [outcome |-> "ok", value |-> Reverse(result)]

ReversalFlipsSideWitness ==
    /\ Returned
    /\ ProperPath
    /\ ~closed
    /\ NumPoints = 3
    /\ ~IsZero(k)
    /\ Reverse(points) # points
    /\ ~IsZero(Turn(points, 1))

----------------------------------------------------------------------------
(* Properties of the primitives, of the transforms and of tangent          *)

\* C4 (as claimed): the product of two matrices, applied to a point, is the
\* chain of the two transforms, translation columns included:
\* vtransl(v, mmul(m0, m1)) = vtransl(vtransl(v, m0), m1).
ProductIsChain == apc = "done" => direct = chained

\* C5 (as claimed): every primitive returns a newly constructed immutable
\* pair, so that no later assignment to the caller's list changes what a call
\* returned.
ResultNeverAliasesInput ==
    ret # 0 =>
        /\ heap[ret].kind = "tuple"
        /\ ret \notin {1, 2}
        /\ heap[ret].val = kept

Inside == Less(Zero, tr) /\ Less(Vlength(<<tx, ty>>), tr)

\* C8: for a point strictly inside the circle (r > 0), the origin included,
\* tangent ends in an error and returns no (angle, length) pair.
InsideHasNoTangent ==
    Inside /\ tres.outcome # "pending" =>
        /\ tres.outcome \in {"ValueError", "ZeroDivisionError"}
        /\ IsZero(tx) /\ IsZero(ty) <=> tres.outcome = "ZeroDivisionError"

InsideHasNoTangentWitness ==
    /\ Inside
    /\ ~IsZero(tx)
    /\ ~IsZero(ty)
    /\ tres.outcome = "ValueError"

====
